---- MODULE Spec2Model ----
(***************************************************************************)
(* State-machine model of the PDF outline / section ranking programs:      *)
(*   - run_hybrid_analysis and call_llm_for_ranking (Challenge_1b/app.py)  *)
(*   - extract_outline (Challenge_1a/outline_extractor.py)                 *)
(*   - predict_structure (pdfwebApp/backend/inference.py)                  *)
(* Text is modelled as a tuple of one-character strings so that lower(),   *)
(* strip() and the regular expressions are computed, not assumed.          *)
(* Python list positions are 0-based in the source and 1-based here: a     *)
(* reference to the k-th candidate (0-based) is the number k + 1.          *)
(***************************************************************************)
EXTENDS Integers, Sequences, FiniteSets, TLC

VARIABLES
    pc,                          \* position of the running program
    structures,                  \* run_hybrid_analysis: argument
    score_of,                    \* the CrossEncoder: score per (heading, content)
    all_sections,                \* flattened pool, tagged with source_doc
    cross_encoder_scores,        \* encoder.predict result, one per pool entry
    semantically_ranked_chunks,  \* pool references with scores, sorted
    high_value_candidates,       \* pool references handed to the LLM
    llm_reply,                   \* what ollama.chat produced in this run
    ranked_indices,              \* result of call_llm_for_ranking
    final_ranked_sections,       \* pool references in final order
    extracted_sections,          \* output list 1
    sub_section_analysis,        \* output list 2
    encoder_calls,               \* number of encoder.predict calls
    llm_calls,                   \* number of ollama.chat calls
    doc,                         \* extract_outline: the PDF (pages), or unreadable
    title,                       \* Pass 1 result
    max_font_size,               \* Pass 1 running maximum (milli-points)
    intro_headings,              \* Pass 2 result
    main_content_headings,       \* Pass 3 result, levelled by Pass 4
    heading_sizes,               \* Pass 4: distinct sizes, descending
    final_outline,               \* assembled outline
    outline_result,              \* what extract_outline returned
    pdf,                         \* predict_structure: the PDF (lines), or unreadable
    line_no,                     \* predict_structure: lines processed so far
    potential_title_parts,       \* predict_structure: accepted title fragments
    outline,                     \* predict_structure: collected headings
    predict_result,              \* what predict_structure returned
    paths,                       \* process_pdfs: the PDFs behind pdf_paths, in input order
    tasks,                       \* one extract_document_structure call per path
    completed,                   \* task numbers in the order the calls returned
    pp_structures                \* the list handed to run_hybrid_analysis

rankVars == <<structures, score_of, all_sections, cross_encoder_scores,
              semantically_ranked_chunks, high_value_candidates, llm_reply,
              ranked_indices, final_ranked_sections, extracted_sections,
              sub_section_analysis, encoder_calls, llm_calls>>

outlineVars == <<doc, title, max_font_size, intro_headings, main_content_headings,
                 heading_sizes, final_outline, outline_result>>

predictVars == <<pdf, line_no, potential_title_parts, outline, predict_result>>

fanVars == <<paths, tasks, completed, pp_structures>>

vars == <<pc, rankVars, outlineVars, predictVars, fanVars>>

\* A returned outline structure.
Structure(t, o) == [title |-> t, outline |-> o]

NoResult == [title |-> <<"<none>">>, outline |-> <<>>]

\* The variables of a program that is not the one running.
RankIdle ==
    /\ structures = <<>>
    /\ score_of = <<>>
    /\ llm_reply = <<>>
    /\ all_sections = <<>>
    /\ cross_encoder_scores = <<>>
    /\ semantically_ranked_chunks = <<>>
    /\ high_value_candidates = <<>>
    /\ ranked_indices = <<>>
    /\ final_ranked_sections = <<>>
    /\ extracted_sections = <<>>
    /\ sub_section_analysis = <<>>
    /\ encoder_calls = 0
    /\ llm_calls = 0

OutlineIdle ==
    /\ doc = <<>>
    /\ title = <<>>
    /\ max_font_size = 0
    /\ intro_headings = <<>>
    /\ main_content_headings = <<>>
    /\ heading_sizes = <<>>
    /\ final_outline = <<>>
    /\ outline_result = NoResult

PredictIdle ==
    /\ pdf = <<>>
    /\ line_no = 0
    /\ potential_title_parts = <<>>
    /\ outline = <<>>
    /\ predict_result = NoResult

FanIdle ==
    /\ paths = <<>>
    /\ tasks = <<>>
    /\ completed = <<>>
    /\ pp_structures = NoResult

(***************************************************************************)
(* Bounds of the model.                                                    *)
(***************************************************************************)
MaxPool == 3        \* sections in an exhaustively enumerated pool
MaxScore == 2       \* encoder scores range over 0..MaxScore
MaxRespLen == 2     \* length of a JSON list returned by the LLM
LongExtra == 3      \* long pools have up to TopCandidates + LongExtra sections
MaxDocLines == 3    \* lines of an exhaustively enumerated PDF (extract_outline)
MaxLadder == 10     \* lines of a PDF whose numbered headings all differ in size
MaxPLines == 3      \* lines of a PDF given to predict_structure
MaxPaths == 3       \* PDFs given to process_pdfs
Workers == 2        \* threads of the executor that are free at a time
MaxSegBlocks == 3   \* blocks of a PDF given to extract_document_structure alone
ExtraPages == 1     \* pages of a long PDF beyond MAX_PAGES_TO_SCAN

(***************************************************************************)
(* Program constants.                                                      *)
(***************************************************************************)
TopCandidates == 20
TopExtracted == 10
TopSubSections == 5
FooterPercent == 85             \* Pass 1 ignores blocks below 85% of the page
IntroPages == 5                 \* Pass 2 scans the first 5 pages
IntroMinSize == 14000           \* Pass 2: size > 14 (milli-points)
BodyTextSizeThreshold == 1100   \* Pass 3: rounded size > 11.0 (centi-points)

(***************************************************************************)
(* Generic helpers.                                                        *)
(***************************************************************************)
Min(a, b) == IF a < b THEN a ELSE b

SeqsUpTo(S, n) == UNION {[1..k -> S] : k \in 0..n}

Prefix(s, n) == SubSeq(s, 1, Min(Len(s), n))

Range(s) == {s[i] : i \in 1..Len(s)}

(***************************************************************************)
(* Text: str.lower() and str.strip() on tuples of characters.              *)
(***************************************************************************)
UpperLetters == <<"A","B","C","D","E","F","G","H","I","J","K","L","M",
                  "N","O","P","Q","R","S","T","U","V","W","X","Y","Z">>

LowerLetters == <<"a","b","c","d","e","f","g","h","i","j","k","l","m",
                  "n","o","p","q","r","s","t","u","v","w","x","y","z">>

Whitespace == {" ", "\t", "\n"}

LowerChar(c) ==
    IF \E i \in 1..Len(UpperLetters) : UpperLetters[i] = c
    THEN LowerLetters[CHOOSE i \in 1..Len(UpperLetters) : UpperLetters[i] = c]
    ELSE c

Lower(s) == [i \in 1..Len(s) |-> LowerChar(s[i])]

Strip(s) ==
    LET keep == {i \in 1..Len(s) : s[i] \notin Whitespace}
    IN  IF keep = {} THEN <<>>
        ELSE SubSeq(s, CHOOSE i \in keep : \A j \in keep : i <= j,
                       CHOOSE i \in keep : \A j \in keep : i >= j)

blacklist ==
    { <<"i","n","t","r","o","d","u","c","t","i","o","n">>,
      <<"c","o","n","c","l","u","s","i","o","n">>,
      <<"r","e","f","e","r","e","n","c","e","s">>,
      <<"a","b","s","t","r","a","c","t">> }

Blacklisted(heading) == Strip(Lower(heading)) \in blacklist

(***************************************************************************)
(* JSON values as json.loads produces them.  A bool carries its Python     *)
(* integer value (True = 1, False = 0) in v.                               *)
(***************************************************************************)
JInt(n) == [t |-> "int", v |-> n]

JBool(n) == [t |-> "bool", v |-> n]

JFloat == [t |-> "float", v |-> 0]

JString == [t |-> "str", v |-> 0]

JList(items) == [t |-> "list", items |-> items]

JObject == [t |-> "dict", items |-> <<>>]

\* Outcomes of ollama.chat followed by response["message"]["content"].
TransportError == [kind |-> "transport_error", value |-> JObject]

MissingContent == [kind |-> "key_error", value |-> JObject]

NotJson == [kind |-> "not_json", value |-> JObject]

JsonReply(value) == [kind |-> "json", value |-> value]

(***************************************************************************)
(* Inputs.  A section as extract_document_structure emits it; headings are *)
(* character tuples, contents are opaque non-empty texts.                  *)
(***************************************************************************)
HMethods == <<"M","e","t","h","o","d","s">>

HAbstractPadded == <<" ","A","b","s","t","r","a","c","t"," ">>

HResults == <<"R","e","s","u","l","t","s">>

SectionSet ==
    { [heading |-> HMethods, content |-> "m", page |-> 0],
      [heading |-> HAbstractPadded, content |-> "a", page |-> 0],
      [heading |-> HResults, content |-> "r", page |-> 1] }

DocTitles == <<"a.pdf", "b.pdf">>

Doc(k, sections) == [title |-> DocTitles[k], sections |-> sections]

\* Every way to spread a pool of at most MaxPool sections over 0, 1 or 2 documents.
SmallStructures ==
    {<<>>}
    \cup {<<Doc(1, p)>> : p \in SeqsUpTo(SectionSet, MaxPool)}
    \cup UNION {{<<Doc(1, SubSeq(p, 1, c)), Doc(2, SubSeq(p, c + 1, Len(p)))>> :
                    c \in 0..Len(p)} : p \in SeqsUpTo(SectionSet, MaxPool)}

\* Long single-document pools: section i of pattern pat.
LongPatterns == {"none", "some", "all"}

LongSection(i, pat) ==
    [heading |-> IF pat = "all" \/ (pat = "some" /\ i % 8 = 0)
                 THEN HAbstractPadded ELSE HMethods,
     content |-> IF i % 2 = 0 THEN "m" ELSE "a",
     page |-> i - 1]

LongSizes == {TopSubSections + 1, TopExtracted + 1}
             \cup (TopCandidates + 1 .. TopCandidates + LongExtra)

LongStructures ==
    {<<Doc(1, [i \in 1..n |-> LongSection(i, pat)])>> :
        n \in LongSizes, pat \in LongPatterns}

Key(section) == <<section.heading, section.content>>

KeysOf(st) == UNION {{Key(x) : x \in Range(st[d].sections)} : d \in 1..Len(st)}

(***************************************************************************)
(* run_hybrid_analysis: the pure steps.                                    *)
(***************************************************************************)
\* all_sections: every section of every document, tagged with its source_doc.
RECURSIVE FlattenSections(_)
FlattenSections(st) ==
    IF st = <<>> THEN <<>>
    ELSE LET d == st[1]
         IN  [i \in 1..Len(d.sections) |->
                 [heading |-> d.sections[i].heading,
                  content |-> d.sections[i].content,
                  page |-> d.sections[i].page,
                  source_doc |-> d.title]]
             \o FlattenSections(Tail(st))

\* encoder.predict over the (query, heading + content) pairs.
EncoderPredict(pool, f) == [i \in 1..Len(pool) |-> f[Key(pool[i])]]

\* Mutant of InsertPos: a chunk goes in front of the chunks of equal score.
InsertPos_Unstable(sorted, chunk) ==
    Cardinality({k \in 1..Len(sorted) : sorted[k].score > chunk.score}) + 1

\* Position of a new chunk in a list sorted by score, descending: behind
\* every chunk that scores at least as much (sorted(..., reverse=True) is stable).
InsertPos(sorted, chunk) ==
    Cardinality({k \in 1..Len(sorted) : sorted[k].score >= chunk.score}) + 1

InsertChunk(sorted, chunk) ==
    LET k == InsertPos(sorted, chunk)
    IN  SubSeq(sorted, 1, k - 1) \o <<chunk>> \o SubSeq(sorted, k, Len(sorted))

RECURSIVE SortedByScore(_)
SortedByScore(chunks) ==
    IF chunks = <<>> THEN <<>>
    ELSE InsertChunk(SortedByScore(SubSeq(chunks, 1, Len(chunks) - 1)),
                     chunks[Len(chunks)])

\* zip(all_sections, cross_encoder_scores): a chunk refers to its pool entry.
Zip(pool, scores) == [i \in 1..Len(pool) |-> [section |-> i, score |-> scores[i]]]

SectionsOf(chunks) == [k \in 1..Len(chunks) |-> chunks[k].section]

KeepHeading(heading) == ~Blacklisted(heading)

\* Mutant of HighValueCandidates: the ranked list is cut to 20 before filtering.
HighValueCandidates_CutFirst(pool, ranked) ==
    LET refs == SectionsOf(Prefix(ranked, TopCandidates))
        kept == SelectSeq(refs, LAMBDA r : ~Blacklisted(pool[r].heading))
    IN  IF kept # <<>> THEN kept ELSE refs

\* The blacklist filter, its truncation and its fallback.
HighValueCandidates(pool, ranked) ==
    LET refs == SectionsOf(ranked)
        kept == Prefix(SelectSeq(refs, LAMBDA r : KeepHeading(pool[r].heading)),
                       TopCandidates)
    IN  IF kept # <<>> THEN kept ELSE SectionsOf(Prefix(ranked, TopCandidates))

\* isinstance(i, int): bool is a subclass of int in Python.
IsInstanceInt(jv) == jv.t \in {"int", "bool"}

\* call_llm_for_ranking on one outcome of the chat call.
call_llm_for_ranking(reply) ==
    IF reply.kind # "json" THEN <<>>
    ELSE IF reply.value.t = "list"
            /\ \A k \in 1..Len(reply.value.items) : IsInstanceInt(reply.value.items[k])
         THEN reply.value.items
         ELSE <<>>

\* high_value_candidates[i] for a Python index i (negative indices count
\* from the end): the 1-based position, or 0 when Python raises IndexError.
PyIndex(i, n) ==
    IF 0 <= i /\ i < n THEN i + 1
    ELSE IF i < 0 /\ i >= 0 - n THEN n + i + 1
    ELSE 0

IndexUsed(i, n) == i < n

\* [high_value_candidates[i] for i in ranked_indices if i < len(...)]
Picked(cands, idx) ==
    LET used == SelectSeq(idx, LAMBDA jv : IndexUsed(jv.v, Len(cands)))
    IN  [k \in 1..Len(used) |-> cands[PyIndex(used[k].v, Len(cands))]]

PickRaises(cands, idx) ==
    \E k \in 1..Len(idx) :
        IndexUsed(idx[k].v, Len(cands)) /\ PyIndex(idx[k].v, Len(cands)) = 0

\* s not in final_ranked_sections: list membership compares dicts by value.
NotIn(pool, s, refs) == \A k \in 1..Len(refs) : pool[refs[k]] # pool[s]

Reranked(pool, cands, idx) ==
    LET picked == Picked(cands, idx)
    IN  picked \o SelectSeq(cands, LAMBDA s : NotIn(pool, s, picked))

ExtractedEntry(section, rank) ==
    [document |-> section.source_doc, page_number |-> section.page,
     section_title |-> section.heading, importance_rank |-> rank]

SubSectionEntry(section) ==
    [document |-> section.source_doc, page_number |-> section.page,
     refined_text |-> section.content]

ExtractedSectionsOut(pool, final) ==
    LET top == Prefix(final, TopExtracted)
    IN  [k \in 1..Len(top) |-> ExtractedEntry(pool[top[k]], k)]

\* Mutant of SubSectionAnalysisOut: the "rank <= 5" test is missing.
SubSectionAnalysisOut_NoRankTest(pool, final) ==
    LET top == Prefix(final, TopExtracted)
    IN  [k \in 1..Len(top) |-> SubSectionEntry(pool[top[k]])]

SubSectionAnalysisOut(pool, final) ==
    LET top == Prefix(Prefix(final, TopExtracted), TopSubSections)
    IN  [k \in 1..Len(top) |-> SubSectionEntry(pool[top[k]])]

(***************************************************************************)
(* The environment of one run: the documents' structures, the encoder's    *)
(* scoring function and the outcome of the one chat call.                  *)
(***************************************************************************)
CandidateCount(st, f) ==
    LET pool == FlattenSections(st)
    IN  Len(HighValueCandidates(pool, SortedByScore(Zip(pool, EncoderPredict(pool, f)))))

RespInts(n) == {0 - (n + 1), 0 - 1, 0, 1, n - 1, n}

RespVals(n) == {JInt(i) : i \in RespInts(n)} \cup {JBool(1), JFloat}

ListReplies(n) == {JsonReply(JList(items)) : items \in SeqsUpTo(RespVals(n), MaxRespLen)}

OtherReplies ==
    {TransportError, MissingContent, NotJson, JsonReply(JObject), JsonReply(JInt(0))}

\* The state in which run_hybrid_analysis is entered.
RankStart(st, f, reply) ==
    /\ pc = "rha_start"
    /\ structures = st
    /\ score_of = f
    /\ llm_reply = reply
    /\ all_sections = <<>>
    /\ cross_encoder_scores = <<>>
    /\ semantically_ranked_chunks = <<>>
    /\ high_value_candidates = <<>>
    /\ ranked_indices = <<>>
    /\ final_ranked_sections = <<>>
    /\ extracted_sections = <<>>
    /\ sub_section_analysis = <<>>
    /\ encoder_calls = 0
    /\ llm_calls = 0
    /\ OutlineIdle
    /\ PredictIdle
    /\ FanIdle

\* Any small pool, any scores; the chat call fails.
SortScenarios ==
    \E st \in SmallStructures :
        \E f \in [KeysOf(st) -> 0..MaxScore] : RankStart(st, f, TransportError)

\* Any small pool in one document, equal scores; any outcome of the chat call.
RerankScenarios ==
    \E p \in SeqsUpTo(SectionSet, MaxPool) :
        LET st == <<Doc(1, p)>>
            f == [k \in KeysOf(st) |-> 0]
        IN  \E r \in ListReplies(CandidateCount(st, f)) \cup OtherReplies :
                RankStart(st, f, r)

\* Long pools, scores 0 or MaxScore per key; a failing, a partial and a bool reply.
LongScenarios ==
    \E st \in LongStructures :
        \E f \in [KeysOf(st) -> {0, MaxScore}] :
            LET n == CandidateCount(st, f)
            IN  \E r \in {NotJson,
                          JsonReply(JList(<<JInt(n - 1), JInt(0)>>)),
                          JsonReply(JList(<<JBool(1)>>))} :
                    RankStart(st, f, r)

(***************************************************************************)
(* run_hybrid_analysis as a state machine.                                 *)
(***************************************************************************)
RankInit == SortScenarios \/ RerankScenarios \/ LongScenarios

\* Mutant of AfterCollect: the empty pool does not end the run.
AfterCollect_NoReturn(pool) == "rha_search"

\* Lines 146-148: "if not all_sections: return" ends the run before any ranker.
AfterCollect(pool) == IF pool = <<>> THEN "rha_returned" ELSE "rha_search"

\* Lines 140-148: flatten; an empty pool returns the empty result at once.
CollectSections ==
    /\ pc = "rha_start"
    /\ UNCHANGED <<outlineVars, predictVars, fanVars>>
    /\ all_sections' = FlattenSections(structures)
    /\ pc' = AfterCollect(all_sections')
    /\ UNCHANGED <<structures, score_of, cross_encoder_scores,
                   semantically_ranked_chunks, high_value_candidates, llm_reply,
                   ranked_indices, final_ranked_sections, extracted_sections,
                   sub_section_analysis, encoder_calls, llm_calls>>

\* Lines 150-161: score every section and sort by score, descending.
SemanticSearch ==
    /\ pc = "rha_search"
    /\ UNCHANGED <<outlineVars, predictVars, fanVars>>
    /\ cross_encoder_scores' = EncoderPredict(all_sections, score_of)
    /\ encoder_calls' = encoder_calls + 1
    /\ semantically_ranked_chunks' = SortedByScore(Zip(all_sections, cross_encoder_scores'))
    /\ pc' = "rha_filter"
    /\ UNCHANGED <<structures, score_of, all_sections, high_value_candidates,
                   llm_reply, ranked_indices, final_ranked_sections,
                   extracted_sections, sub_section_analysis, llm_calls>>

\* Lines 163-173: blacklist filter, top 20, fallback to the unfiltered list.
FilterCandidates ==
    /\ pc = "rha_filter"
    /\ UNCHANGED <<outlineVars, predictVars, fanVars>>
    /\ high_value_candidates' = HighValueCandidates(all_sections, semantically_ranked_chunks)
    /\ pc' = "rha_llm"
    /\ UNCHANGED <<structures, score_of, all_sections, cross_encoder_scores,
                   semantically_ranked_chunks, llm_reply, ranked_indices,
                   final_ranked_sections, extracted_sections, sub_section_analysis,
                   encoder_calls, llm_calls>>

\* Mutant of ChatCalls: a failed chat call is tried a second time.
ChatCalls_Retry(reply) == IF reply.kind = "json" THEN 1 ELSE 2

\* Lines 118-122: ollama.chat is called once inside the try block, whatever comes back.
ChatCalls(reply) == IF reply.kind = "json" THEN 1 ELSE 1

\* Line 187: the one call of call_llm_for_ranking.
CallLLM ==
    /\ pc = "rha_llm"
    /\ UNCHANGED <<outlineVars, predictVars, fanVars>>
    /\ llm_calls' = llm_calls + ChatCalls(llm_reply)
    /\ ranked_indices' = call_llm_for_ranking(llm_reply)
    /\ pc' = "rha_rerank"
    /\ UNCHANGED <<structures, score_of, all_sections, cross_encoder_scores,
                   semantically_ranked_chunks, high_value_candidates, llm_reply,
                   final_ranked_sections, extracted_sections, sub_section_analysis,
                   encoder_calls>>

\* Lines 189-195: apply the returned indices, or fall back.
Rerank ==
    /\ pc = "rha_rerank"
    /\ UNCHANGED <<outlineVars, predictVars, fanVars>>
    /\ IF ranked_indices # <<>>
       THEN IF PickRaises(high_value_candidates, ranked_indices)
            THEN /\ pc' = "rha_raised"
                 /\ UNCHANGED final_ranked_sections
            ELSE /\ pc' = "rha_output"
                 /\ final_ranked_sections' =
                        Reranked(all_sections, high_value_candidates, ranked_indices)
       ELSE /\ pc' = "rha_output"
            /\ final_ranked_sections' = high_value_candidates
    /\ UNCHANGED <<structures, score_of, all_sections, cross_encoder_scores,
                   semantically_ranked_chunks, high_value_candidates, llm_reply,
                   ranked_indices, extracted_sections, sub_section_analysis,
                   encoder_calls, llm_calls>>

\* Lines 197-217: the two output lists.
GenerateOutput ==
    /\ pc = "rha_output"
    /\ UNCHANGED <<outlineVars, predictVars, fanVars>>
    /\ extracted_sections' = ExtractedSectionsOut(all_sections, final_ranked_sections)
    /\ sub_section_analysis' = SubSectionAnalysisOut(all_sections, final_ranked_sections)
    /\ pc' = "rha_returned"
    /\ UNCHANGED <<structures, score_of, all_sections, cross_encoder_scores,
                   semantically_ranked_chunks, high_value_candidates, llm_reply,
                   ranked_indices, final_ranked_sections, encoder_calls, llm_calls>>

RankNext ==
    \/ CollectSections
    \/ SemanticSearch
    \/ FilterCandidates
    \/ CallLLM
    \/ Rerank
    \/ GenerateOutput

SpecRank == RankInit /\ [][RankNext]_vars

(***************************************************************************)
(* Properties of run_hybrid_analysis.                                      *)
(***************************************************************************)
RerankDone == pc \in {"rha_output", "rha_returned"} /\ all_sections # <<>>

AfterSearch == pc \in {"rha_filter", "rha_llm", "rha_rerank", "rha_output", "rha_raised"}
               \/ (pc = "rha_returned" /\ all_sections # <<>>)

AfterFilter == AfterSearch /\ pc # "rha_filter"

\* A non-empty list of distinct JSON integers, each in [0, n).
WellFormedIndices(idx, n) ==
    /\ idx # <<>>
    /\ \A k \in 1..Len(idx) : idx[k].t = "int" /\ 0 <= idx[k].v /\ idx[k].v < n
    /\ \A k, m \in 1..Len(idx) : k # m => idx[k].v # idx[m].v

\* s is an ordering of exactly the references of t, each once.
IsPermutationOf(s, t) ==
    /\ Len(s) = Len(t)
    /\ \A k \in 1..Len(t) : Cardinality({m \in 1..Len(s) : s[m] = t[k]}) = 1

\* C1: for a well-formed index list returned by the LLM, final_ranked_sections
\* is a permutation of the candidates: every candidate appears exactly once,
\* also when two candidates are equal in heading, content, page and source_doc.
C1_Completeness ==
    (RerankDone /\ WellFormedIndices(ranked_indices, Len(high_value_candidates)))
        => IsPermutationOf(final_ranked_sections, high_value_candidates)

\* The chat outcome is malformed: no JSON, no list, or a list with an element
\* that is not a JSON integer, or the call raised.
Malformed(reply) ==
    \/ reply.kind # "json"
    \/ reply.value.t # "list"
    \/ \E k \in 1..Len(reply.value.items) : reply.value.items[k].t # "int"

\* C2: on a malformed LLM response call_llm_for_ranking returns the empty list
\* and the final order equals high_value_candidates element for element.
C2_Fallback ==
    Malformed(llm_reply) =>
        /\ (AfterFilter /\ pc # "rha_llm") => ranked_indices = <<>>
        /\ pc # "rha_raised"
        /\ RerankDone => final_ranked_sections = high_value_candidates

\* C3: the semantically ranked list holds every pool entry once, with its
\* score, sorted by score descending; equal scores keep the pool order.
C3_SortedStable ==
    AfterSearch =>
        /\ IsPermutationOf(SectionsOf(semantically_ranked_chunks),
                           [i \in 1..Len(all_sections) |-> i])
        /\ \A k \in 1..Len(semantically_ranked_chunks) :
               semantically_ranked_chunks[k].score =
                   cross_encoder_scores[semantically_ranked_chunks[k].section]
        /\ \A k, m \in 1..Len(semantically_ranked_chunks) :
               k < m =>
                   /\ semantically_ranked_chunks[k].score >= semantically_ranked_chunks[m].score
                   /\ semantically_ranked_chunks[k].score = semantically_ranked_chunks[m].score
                          => semantically_ranked_chunks[k].section
                                 < semantically_ranked_chunks[m].section

\* Scores [0.2, 0.9, 0.5] (as 0, 2, 1) give the order section 2, 3, 1; and
\* the run also ranked two sections of equal score.
C3_Witness ==
    /\ pc = "rha_filter"
    /\ cross_encoder_scores = <<0, 2, 1>>
    /\ SectionsOf(semantically_ranked_chunks) = <<2, 3, 1>>

\* The ranked references whose heading is not one of the four blacklisted words.
NonBlacklistedRanked ==
    SelectSeq(SectionsOf(semantically_ranked_chunks),
              LAMBDA r : Strip(Lower(all_sections[r].heading)) \notin blacklist)

\* C4: at most 20 candidates; the first 20 non-blacklisted sections in ranked
\* order when there is one, else the first 20 of the unfiltered ranked list.
C4_FilterFallback ==
    AfterFilter =>
        /\ Len(high_value_candidates) <= TopCandidates
        /\ NonBlacklistedRanked # <<>> =>
               /\ high_value_candidates = Prefix(NonBlacklistedRanked, TopCandidates)
               /\ \A k \in 1..Len(high_value_candidates) :
                      Strip(Lower(all_sections[high_value_candidates[k]].heading))
                          \notin blacklist
        /\ NonBlacklistedRanked = <<>> =>
               high_value_candidates =
                   Prefix(SectionsOf(semantically_ranked_chunks), TopCandidates)

\* A pool with a blacklisted heading and more than 20 others, cut to 20.
C4_Witness ==
    /\ pc = "rha_llm"
    /\ Len(NonBlacklistedRanked) > TopCandidates
    /\ Len(NonBlacklistedRanked) < Len(all_sections)
    /\ Len(high_value_candidates) = TopCandidates

\* C5: extracted_sections has min(M,10) entries ranked 1..min(M,10) matching
\* the final order; sub_section_analysis has min(M,5) entries matching the
\* first entries of extracted_sections and carrying the full content.
C5_OutputShape ==
    (pc = "rha_returned" /\ all_sections # <<>>) =>
        LET M == Len(final_ranked_sections)
        IN  /\ Len(extracted_sections) = Min(M, TopExtracted)
            /\ \A k \in 1..Len(extracted_sections) :
                   /\ extracted_sections[k].importance_rank = k
                   /\ extracted_sections[k].document =
                          all_sections[final_ranked_sections[k]].source_doc
                   /\ extracted_sections[k].page_number =
                          all_sections[final_ranked_sections[k]].page
                   /\ extracted_sections[k].section_title =
                          all_sections[final_ranked_sections[k]].heading
            /\ Len(sub_section_analysis) = Min(M, TopSubSections)
            /\ \A k \in 1..Len(sub_section_analysis) :
                   /\ sub_section_analysis[k].document = extracted_sections[k].document
                   /\ sub_section_analysis[k].page_number = extracted_sections[k].page_number
                   /\ sub_section_analysis[k].refined_text =
                          all_sections[final_ranked_sections[k]].content

\* A run that returned with more than 10 sections in the final order.
C5_Witness ==
    /\ pc = "rha_returned"
    /\ Len(final_ranked_sections) > TopExtracted
    /\ Len(extracted_sections) = TopExtracted
    /\ Len(sub_section_analysis) = TopSubSections

\* C6: when the documents yield no section, the run goes from its start
\* straight to the empty result and neither the encoder nor the LLM is called.
C6_EmptyShortCircuit ==
    FlattenSections(structures) = <<>> =>
        /\ pc \in {"rha_start", "rha_returned"}
        /\ encoder_calls = 0
        /\ llm_calls = 0
        /\ extracted_sections = <<>>
        /\ sub_section_analysis = <<>>

\* A run over documents without sections has returned.
C6_Witness ==
    /\ pc = "rha_returned"
    /\ structures # <<>>
    /\ all_sections = <<>>
    /\ encoder_calls = 0
    /\ llm_calls = 0

\* The chat call raised: transport error, missing key or undecodable content.
CallFailed == llm_reply.kind # "json"

\* C13: with a non-empty pool the LLM is called exactly once per run and never
\* again; a failed call does not abort the run: it never raises, its next
\* step can always be taken until it returns, and it returns the result built from
\* the semantic ranker's order.
C13_SingleCall ==
    /\ llm_calls <= 1
    /\ (pc \in {"rha_start", "rha_search", "rha_filter", "rha_llm"}
           \/ all_sections = <<>>) => llm_calls = 0
    /\ (pc \in {"rha_rerank", "rha_output", "rha_raised"} \/ RerankDone)
           => llm_calls = 1
    /\ (CallFailed /\ ~RankIdle) =>
           /\ pc # "rha_raised"
           /\ pc = "rha_llm" => ENABLED CallLLM
           /\ pc = "rha_rerank" => ENABLED Rerank
           /\ pc = "rha_output" => ENABLED GenerateOutput
           /\ RerankDone => final_ranked_sections = high_value_candidates
           /\ (pc = "rha_returned" /\ all_sections # <<>>) =>
                  extracted_sections =
                      ExtractedSectionsOut(all_sections, high_value_candidates)

\* A run whose chat call failed has returned a non-empty result.
C13_Witness ==
    /\ pc = "rha_returned"
    /\ CallFailed
    /\ llm_calls = 1
    /\ extracted_sections # <<>>

\* C19: whatever list of integers the LLM returns, repeated indices included,
\* no candidate appears more than once in final_ranked_sections.
C19_NoDuplicates ==
    (RerankDone /\ ranked_indices # <<>>
        /\ \A k \in 1..Len(ranked_indices) : ranked_indices[k].t = "int") =>
        \A k, m \in 1..Len(final_ranked_sections) :
            k # m => final_ranked_sections[k] # final_ranked_sections[m]

\* C20: for any non-empty list of integers the re-rank step does not raise,
\* every index below 0 or at least N is skipped, and the run goes on.
C20_OutOfRangeSkipped ==
    (ranked_indices # <<>>
        /\ \A k \in 1..Len(ranked_indices) : ranked_indices[k].t = "int") =>
        /\ pc # "rha_raised"
        /\ RerankDone =>
               LET n == Len(high_value_candidates)
                   inRange == SelectSeq(ranked_indices, LAMBDA jv : 0 <= jv.v /\ jv.v < n)
               IN  SubSeq(final_ranked_sections, 1, Len(inRange))
                       = [k \in 1..Len(inRange) |-> high_value_candidates[inRange[k].v + 1]]

(***************************************************************************)
(* extract_outline: text helpers.                                          *)
(***************************************************************************)
DigitChars == <<"0","1","2","3","4","5","6","7","8","9">>

IsDigit(c) == c \in Range(DigitChars)

\* str(n) for n >= 0.
RECURSIVE Decimal(_)
Decimal(n) ==
    IF n < 10 THEN <<DigitChars[n + 1]>>
    ELSE Decimal(n \div 10) \o <<DigitChars[(n % 10) + 1]>>

\* f"H{i+1}" for the 0-based position i.
LevelName(i) == <<"H">> \o Decimal(i + 1)

\* sep.join(parts)
RECURSIVE Join(_, _)
Join(sep, parts) ==
    IF parts = <<>> THEN <<>>
    ELSE IF Len(parts) = 1 THEN parts[1]
    ELSE parts[1] \o sep \o Join(sep, Tail(parts))

StrippedTexts(spans) == [k \in 1..Len(spans) |-> Strip(spans[k].text)]

\* " ".join(s['text'].strip() for s in spans).strip()
LineText(spans) == Strip(Join(<<" ">>, StrippedTexts(spans)))

\* "".join(s['text'].strip() for s in next_line_spans)
NextLineText(spans) == Join(<<>>, StrippedTexts(spans))

\* re.compile(r"^\d+[\.\d]*\s+").match(text): a digit, then digits and dots,
\* then at least one whitespace character.
HeadingPatternMatch(text) ==
    /\ text # <<>>
    /\ IsDigit(text[1])
    /\ LET other == {i \in 1..Len(text) : ~IsDigit(text[i]) /\ text[i] # "."}
       IN  /\ other # {}
           /\ text[CHOOSE i \in other : \A j \in other : i <= j] \in Whitespace

\* round(size, 2): milli-points to centi-points (the inputs hold no exact half).
Round2(size) == (size + 5) \div 10

intro_candidates ==
    { <<"R","e","v","i","s","i","o","n"," ","H","i","s","t","o","r","y">>,
      <<"T","a","b","l","e"," ","o","f"," ","C","o","n","t","e","n","t","s">>,
      <<"A","c","k","n","o","w","l","e","d","g","e","m","e","n","t","s">> }

RECURSIVE Concat(_)
Concat(seqs) == IF seqs = <<>> THEN <<>> ELSE seqs[1] \o Concat(Tail(seqs))

\* The lines of a page in block order, each with its block and its position.
BlockLines(block) ==
    [k \in 1..Len(block.lines) |-> [spans |-> block.lines[k], idx |-> k, block |-> block]]

PageLines(page) == Concat([b \in 1..Len(page.blocks) |-> BlockLines(page.blocks[b])])

(***************************************************************************)
(* extract_outline: the four passes and the assembly.                      *)
(***************************************************************************)
\* Pass 1: spans of the first page's blocks above the footer margin.
TitleSpans(page) ==
    Concat([b \in 1..Len(page.blocks) |->
               IF 100 * page.blocks[b].top < FooterPercent * page.height
               THEN Concat(page.blocks[b].lines) ELSE <<>>])

\* Mutant of Replaces: a span of equal size replaces the title too.
Replaces_OrEqual(size, max) == size >= max

\* "if s['size'] > max_font_size": a span replaces the title only when larger.
Replaces(size, max) == size > max

RECURSIVE TitleScan(_, _)
TitleScan(spans, acc) ==
    IF spans = <<>> THEN acc
    ELSE TitleScan(Tail(spans),
                   IF Replaces(spans[1].size, acc.max)
                   THEN [max |-> spans[1].size, title |-> Strip(spans[1].text)]
                   ELSE acc)

Pass1(pages) == TitleScan(TitleSpans(pages[1]), [max |-> 0, title |-> <<>>])

\* Pass 2: the introductory headings of page i (1-based PDF page number).
IsIntroHeading(spans) ==
    /\ spans # <<>>
    /\ LineText(spans) \in intro_candidates
    /\ spans[1].size > IntroMinSize

IntroEntry(spans, i) ==
    [level |-> <<"H", "1">>, text |-> LineText(spans) \o <<" ">>, page |-> i]

IntroOfPage(page, i) ==
    LET hits == SelectSeq(PageLines(page), LAMBDA l : IsIntroHeading(l.spans))
    IN  [k \in 1..Len(hits) |-> IntroEntry(hits[k].spans, i)]

Pass2(pages) ==
    Concat([i \in 1..Min(IntroPages, Len(pages)) |-> IntroOfPage(pages[i], i)])

\* Pass 3: the first page holding the anchor phrase (1-based), else the first.
StartPage(pages) ==
    LET found == {i \in 1..Len(pages) : pages[i].anchor}
    IN  IF found = {} THEN 1 ELSE CHOOSE i \in found : \A j \in found : i <= j

IsNumberedHeading(spans) ==
    /\ spans # <<>>
    /\ HeadingPatternMatch(LineText(spans))
    /\ Round2(spans[1].size) > BodyTextSizeThreshold

\* Mutant of MergedText: the following line is never appended.
MergedText_NoMerge(l) == LineText(l.spans)

\* The multi-line merge: the next line of the same block, if it has spans and
\* is not numbered itself, is appended without a separator.
MergedText(l) ==
    LET lines == l.block.lines
    IN  IF l.idx + 1 <= Len(lines)
           /\ lines[l.idx + 1] # <<>>
           /\ ~HeadingPatternMatch(NextLineText(lines[l.idx + 1]))
        THEN LineText(l.spans) \o NextLineText(lines[l.idx + 1])
        ELSE LineText(l.spans)

NumberedOfPage(page, i) ==
    LET hits == SelectSeq(PageLines(page), LAMBDA l : IsNumberedHeading(l.spans))
    IN  [k \in 1..Len(hits) |->
            [text |-> MergedText(hits[k]), size |-> Round2(hits[k].spans[1].size),
             page |-> i]]

Pass3(pages) ==
    Concat([i \in 1..Len(pages) |->
               IF i >= StartPage(pages) THEN NumberedOfPage(pages[i], i) ELSE <<>>])

\* Mutant of SortedDescending: reverse=True is missing.
RECURSIVE SortedDescending_Ascending(_)
SortedDescending_Ascending(S) ==
    IF S = {} THEN <<>>
    ELSE LET m == CHOOSE x \in S : \A y \in S : x <= y
         IN  <<m>> \o SortedDescending_Ascending(S \ {m})

\* Pass 4: sorted(list(set(sizes)), reverse=True)
RECURSIVE SortedDescending(_)
SortedDescending(S) ==
    IF S = {} THEN <<>>
    ELSE LET m == CHOOSE x \in S : \A y \in S : x >= y
         IN  <<m>> \o SortedDescending(S \ {m})

HeadingSizes(headings) == SortedDescending({headings[k].size : k \in 1..Len(headings)})

\* size_to_level_map.get(size, "H9")
LevelOfSize(size, sizes) ==
    IF \E i \in 1..Len(sizes) : sizes[i] = size
    THEN LevelName((CHOOSE i \in 1..Len(sizes) : sizes[i] = size) - 1)
    ELSE <<"H", "9">>

Pass4(headings) ==
    [k \in 1..Len(headings) |->
        [level |-> LevelOfSize(headings[k].size, HeadingSizes(headings)),
         text |-> headings[k].text \o <<" ">>,
         page |-> headings[k].page]]

\* sorted(..., key=lambda x: x['page']): stable, ascending.
PagePos(sorted, h) == Cardinality({k \in 1..Len(sorted) : sorted[k].page <= h.page}) + 1

RECURSIVE SortedByPage(_)
SortedByPage(hs) ==
    IF hs = <<>> THEN <<>>
    ELSE LET rest == SortedByPage(SubSeq(hs, 1, Len(hs) - 1))
             k == PagePos(rest, hs[Len(hs)])
         IN  SubSeq(rest, 1, k - 1) \o <<hs[Len(hs)]>> \o SubSeq(rest, k, Len(rest))

\* "if heading['text'] not in seen_texts"
Seen(h, kept) == \E k \in 1..Len(kept) : kept[k].text = h.text

RECURSIVE Deduplicated(_, _)
Deduplicated(hs, kept) ==
    IF hs = <<>> THEN kept
    ELSE Deduplicated(Tail(hs), IF Seen(hs[1], kept) THEN kept ELSE Append(kept, hs[1]))

\* item["page"] = item["page"] - 1
Renumbered(hs) ==
    [k \in 1..Len(hs) |-> [level |-> hs[k].level, text |-> hs[k].text, page |-> hs[k].page - 1]]

\* Mutant of Assemble: the numbered headings are put in front of the introductory ones.
Assemble_MainFirst(intro, main) ==
    Renumbered(Deduplicated(SortedByPage(main \o intro), <<>>))

Assemble(intro, main) == Renumbered(Deduplicated(SortedByPage(intro \o main), <<>>))

(***************************************************************************)
(* extract_outline: the documents.  A PDF is a sequence of pages, a page a *)
(* sequence of blocks, a block a sequence of lines, a line a sequence of   *)
(* spans; sizes are in milli-points.                                       *)
(***************************************************************************)
Span(text, size) == [text |-> text, size |-> size]

T1A == <<"1", ".", " ", "A">>

T2B == <<"2", " ", "B">>

TBody == <<"x">>

TContents == <<"T","a","b","l","e"," ","o","f"," ","C","o","n","t","e","n","t","s">>

TRevision == <<"R","e","v","i","s","i","o","n"," ","H","i","s","t","o","r","y">>

LineCatalogue ==
    { <<Span(T1A, 16000)>>,                                   \* numbered, large
      <<Span(T1A, 12000)>>,                                   \* same text, smaller
      <<Span(T2B, 11004)>>,                                   \* list item: rounds to 11.0
      <<Span(TBody, 10000)>>,                                 \* body text
      <<Span(TContents, 14004)>>,                             \* introductory heading
      <<Span(TRevision, 16000)>>,                             \* introductory heading, as large as the first
      <<Span(<<"1", ".", "1">>, 12000), Span(<<" ", "C", " ">>, 18000)>> }

Gaps == {"line", "block", "page"}

\* bbox[1] of the b-th block of a page; the third and later blocks are footers.
BlockTop(b) == IF b = 1 THEN 50 ELSE IF b = 2 THEN 400 ELSE 700

Block(b, lines) == [top |-> BlockTop(b), lines |-> lines]

\* Every page is 800 points high.
Page(blocks) == [height |-> 800, anchor |-> FALSE, blocks |-> blocks]

AddLine(pages, line, gap) ==
    IF pages = <<>> \/ gap = "page"
    THEN Append(pages, Page(<<Block(1, <<line>>)>>))
    ELSE LET n == Len(pages)
             blocks == pages[n].blocks
             m == Len(blocks)
         IN  IF gap = "block"
             THEN [pages EXCEPT ![n].blocks = Append(blocks, Block(m + 1, <<line>>))]
             ELSE [pages EXCEPT ![n].blocks[m].lines = Append(blocks[m].lines, line)]

\* The pages made of the given lines; gaps[k] separates line k from line k + 1.
RECURSIVE BuildPages(_, _)
BuildPages(lines, gaps) ==
    IF lines = <<>> THEN <<>>
    ELSE IF Len(lines) = 1 THEN AddLine(<<>>, lines[1], "page")
    ELSE AddLine(BuildPages(SubSeq(lines, 1, Len(lines) - 1), gaps),
                 lines[Len(lines)], gaps[Len(lines) - 1])

\* The anchor phrase is found by page.search_for on page a (0: on no page;
\* found on page 1 the scan starts where it starts without an anchor).
WithAnchor(pages, a) == [i \in 1..Len(pages) |-> [pages[i] EXCEPT !.anchor = (i = a)]]

Readable(pages) == [readable |-> TRUE, pages |-> pages]

Unreadable == [readable |-> FALSE, pages |-> <<>>]

\* Line k of a ladder: numbered headings of strictly increasing size.
LadderLine(k) == <<Span(<<DigitChars[(k % 10) + 1], ".", " ", "A">>, 12000 + 1000 * k)>>

LadderPages(n) == <<Page(<<Block(1, [k \in 1..n |-> LadderLine(k)])>>)>>

(***************************************************************************)
(* extract_outline as a state machine.                                     *)
(***************************************************************************)
OutlineStart(d) ==
    /\ pc = "eo_open"
    /\ doc = d
    /\ title = <<>>
    /\ max_font_size = 0
    /\ intro_headings = <<>>
    /\ main_content_headings = <<>>
    /\ heading_sizes = <<>>
    /\ final_outline = <<>>
    /\ outline_result = NoResult
    /\ RankIdle
    /\ PredictIdle
    /\ FanIdle

SmallDocs ==
    \E n \in 1..MaxDocLines :
        \E lines \in [1..n -> LineCatalogue] :
            \E gaps \in [1..n - 1 -> Gaps] :
                LET pages == BuildPages(lines, gaps)
                IN  \E a \in {0} \cup (2..Len(pages)) : OutlineStart(Readable(WithAnchor(pages, a)))

LadderDocs ==
    \E n \in MaxLadder - 1..MaxLadder : OutlineStart(Readable(LadderPages(n)))

\* A document whose pages hold no text.
NoText(n) == Readable([i \in 1..n |-> Page(<<>>)])

BrokenDocs ==
    \/ OutlineStart(Unreadable)
    \/ OutlineStart(Readable(<<>>))
    \/ \E n \in 1..2 : OutlineStart(NoText(n))

TIntroduction == <<"1", ".", " ", "I", "n", "t", "r", "o", "d", "u", "c", "t", "i", "o", "n">>

TBodyText == <<"T", "h", "i", "s", " ", "i", "s", " ", "b", "o", "d", "y", " ",
               "t", "e", "x", "t", ".">>

\* One page with a heading line of size 16 at top 50 and a body line of size
\* 10 at top 80, in one block or in two (the rule engine does not read the
\* bold flag).
ExamplePage(sameBlock) ==
    LET heading == <<Span(TIntroduction, 16000)>>
        body == <<Span(TBodyText, 10000)>>
    IN  Page(IF sameBlock
             THEN <<[top |-> 50, lines |-> <<heading, body>>]>>
             ELSE <<[top |-> 50, lines |-> <<heading>>], [top |-> 80, lines |-> <<body>>]>>)

ExampleDocs == \E sameBlock \in BOOLEAN : OutlineStart(Readable(<<ExamplePage(sameBlock)>>))

OutlineInit == SmallDocs \/ LadderDocs \/ BrokenDocs \/ ExampleDocs

\* Lines 11-17: open the PDF; an unreadable or page-less PDF returns at once.
OpenPdf ==
    /\ pc = "eo_open"
    /\ IF ~doc.readable
       THEN /\ outline_result' = Structure(<<"Error opening PDF">>, <<>>)
            /\ pc' = "eo_returned"
       ELSE IF Len(doc.pages) = 0
       THEN /\ outline_result' = Structure(<<"Empty or invalid PDF">>, <<>>)
            /\ pc' = "eo_returned"
       ELSE /\ pc' = "eo_pass1"
            /\ UNCHANGED outline_result
    /\ UNCHANGED <<doc, title, max_font_size, intro_headings, main_content_headings,
                   heading_sizes, final_outline>>
    /\ UNCHANGED <<rankVars, predictVars, fanVars>>

\* Lines 19-35: the title.
ExtractTitle ==
    /\ pc = "eo_pass1"
    /\ title' = Pass1(doc.pages).title
    /\ max_font_size' = Pass1(doc.pages).max
    /\ pc' = "eo_pass2"
    /\ UNCHANGED <<doc, intro_headings, main_content_headings, heading_sizes,
                   final_outline, outline_result>>
    /\ UNCHANGED <<rankVars, predictVars, fanVars>>

\* Lines 37-55: the introductory headings.
ExtractIntroHeadings ==
    /\ pc = "eo_pass2"
    /\ intro_headings' = Pass2(doc.pages)
    /\ pc' = "eo_pass3"
    /\ UNCHANGED <<doc, title, max_font_size, main_content_headings, heading_sizes,
                   final_outline, outline_result>>
    /\ UNCHANGED <<rankVars, predictVars, fanVars>>

\* Lines 57-97: the numbered headings.
ExtractNumberedHeadings ==
    /\ pc = "eo_pass3"
    /\ main_content_headings' = Pass3(doc.pages)
    /\ pc' = "eo_pass4"
    /\ UNCHANGED <<doc, title, max_font_size, intro_headings, heading_sizes,
                   final_outline, outline_result>>
    /\ UNCHANGED <<rankVars, predictVars, fanVars>>

\* Lines 99-108: levels from the distinct sizes; skipped without candidates.
ClassifyLevels ==
    /\ pc = "eo_pass4"
    /\ IF main_content_headings # <<>>
       THEN /\ heading_sizes' = HeadingSizes(main_content_headings)
            /\ main_content_headings' = Pass4(main_content_headings)
       ELSE UNCHANGED <<heading_sizes, main_content_headings>>
    /\ pc' = "eo_assemble"
    /\ UNCHANGED <<doc, title, max_font_size, intro_headings, final_outline,
                   outline_result>>
    /\ UNCHANGED <<rankVars, predictVars, fanVars>>

\* Lines 110-129: combine, sort, de-duplicate, renumber the pages, return.
AssembleOutline ==
    /\ pc = "eo_assemble"
    /\ final_outline' = Assemble(intro_headings, main_content_headings)
    /\ outline_result' = Structure(title, final_outline')
    /\ pc' = "eo_returned"
    /\ UNCHANGED <<doc, title, max_font_size, intro_headings, main_content_headings,
                   heading_sizes>>
    /\ UNCHANGED <<rankVars, predictVars, fanVars>>

OutlineNext ==
    \/ OpenPdf
    \/ ExtractTitle
    \/ ExtractIntroHeadings
    \/ ExtractNumberedHeadings
    \/ ClassifyLevels
    \/ AssembleOutline

SpecOutline == OutlineInit /\ [][OutlineNext]_vars

(***************************************************************************)
(* predict_structure (inference.py).  A PDF is the sequence of its text    *)
(* lines in reading order: pages ascending and, within a page, the rounded *)
(* top ascending (the lines are keyed by top, so no two share one).  Each  *)
(* line carries the label model.predict gives its feature vector.          *)
(***************************************************************************)
LabelTitle == <<"Title">>

LabelParagraph == <<"paragraph">>

HeadingLabels == {<<"H", "1">>, <<"H", "2">>, <<"H", "3">>}

Labels == {LabelTitle, LabelParagraph} \cup HeadingLabels

LineTexts == {<<"A">>, <<"B">>}

\* (page_num, top) of a line, on pages 800 points high.
Positions == {<<p, t>> : p \in {0, 1}, t \in {100, 500}}

PosBefore(a, b) == a[1] < b[1] \/ (a[1] = b[1] /\ a[2] < b[2])

RECURSIVE InReadingOrder(_)
InReadingOrder(S) ==
    IF S = {} THEN <<>>
    ELSE LET first == CHOOSE a \in S : \A b \in S \ {a} : PosBefore(a, b)
         IN  <<first>> \o InReadingOrder(S \ {first})

PdfLines(S, text, label) ==
    LET order == InReadingOrder(S)
    IN  [k \in 1..Len(order) |->
            [page_num |-> order[k][1], top |-> order[k][2], page_height |-> 800,
             text |-> text[order[k]], label |-> label[order[k]]]]

\* y_position = top / page_height; "y_position < 0.5"
UpperHalf(line) == 2 * line.top < line.page_height

\* Lines 110-116: what one classified line adds.
IsTitlePart(line) == line.label = LabelTitle /\ line.page_num = 0 /\ UpperHalf(line)

IsOutlineEntry(line) == ~IsTitlePart(line) /\ line.label \in HeadingLabels

OutlineEntry(line) == [level |-> line.label, text |-> line.text, page |-> line.page_num]

PredictStart(d) ==
    /\ pc = "ps_open"
    /\ pdf = d
    /\ line_no = 0
    /\ potential_title_parts = <<>>
    /\ outline = <<>>
    /\ predict_result = NoResult
    /\ RankIdle
    /\ OutlineIdle
    /\ FanIdle

PredictInit ==
    \/ PredictStart(Unreadable)
    \/ \E S \in SUBSET Positions :
           /\ Cardinality(S) <= MaxPLines
           /\ \E text \in [S -> LineTexts] :
                  \E label \in [S -> Labels] :
                      \E f \in 0..Cardinality(S) :
                          PredictStart([readable |-> TRUE, fails_at |-> f,
                                        lines |-> PdfLines(S, text, label)])

\* Mutant of FailedResult: the except branch returns what was collected so far.
FailedResult_Partial(parts, o) == Structure(Join(<<" ">>, parts), o)

\* Lines 120-122: the except branch returns the empty structure.
FailedResult(parts, o) == Structure(<<>>, <<>>)

\* Lines 48-54: open; a PDF that cannot be opened, or without extractable
\* text, returns the empty structure.
OpenPlumber ==
    /\ pc = "ps_open"
    /\ IF ~pdf.readable
       THEN /\ predict_result' = FailedResult(potential_title_parts, outline)
            /\ pc' = "ps_returned"
       ELSE IF pdf.lines = <<>>
       THEN /\ predict_result' = Structure(<<>>, <<>>)
            /\ pc' = "ps_returned"
       ELSE /\ pc' = "ps_lines"
            /\ UNCHANGED predict_result
    /\ UNCHANGED <<pdf, line_no, potential_title_parts, outline>>
    /\ UNCHANGED <<rankVars, outlineVars, fanVars>>

\* Lines 71-122: the scan of line fails_at raises inside the try block.
FailLine ==
    /\ pc = "ps_lines"
    /\ line_no < Len(pdf.lines)
    /\ line_no + 1 = pdf.fails_at
    /\ predict_result' = FailedResult(potential_title_parts, outline)
    /\ pc' = "ps_returned"
    /\ UNCHANGED <<pdf, line_no, potential_title_parts, outline>>
    /\ UNCHANGED <<rankVars, outlineVars, fanVars>>

\* Lines 71-118: one line of the scan.
ClassifyLine ==
    /\ pc = "ps_lines"
    /\ line_no < Len(pdf.lines)
    /\ line_no + 1 # pdf.fails_at
    /\ LET line == pdf.lines[line_no + 1]
       IN  /\ potential_title_parts' =
                  IF IsTitlePart(line) THEN Append(potential_title_parts, line.text)
                  ELSE potential_title_parts
           /\ outline' =
                  IF IsOutlineEntry(line) THEN Append(outline, OutlineEntry(line))
                  ELSE outline
    /\ line_no' = line_no + 1
    /\ UNCHANGED <<pc, pdf, predict_result>>
    /\ UNCHANGED <<rankVars, outlineVars, fanVars>>

\* Lines 124-125: join the title parts and return.
ReturnStructure ==
    /\ pc = "ps_lines"
    /\ line_no = Len(pdf.lines)
    /\ predict_result' = Structure(Join(<<" ">>, potential_title_parts), outline)
    /\ pc' = "ps_returned"
    /\ UNCHANGED <<pdf, line_no, potential_title_parts, outline>>
    /\ UNCHANGED <<rankVars, outlineVars, fanVars>>

PredictNext ==
    \/ OpenPlumber
    \/ FailLine
    \/ ClassifyLine
    \/ ReturnStructure

SpecPredict == PredictInit /\ [][PredictNext]_vars

\* The two classifier variants side by side.
SpecClassifiers == (OutlineInit \/ PredictInit) /\ [][OutlineNext \/ PredictNext]_vars

(***************************************************************************)
(* Properties of the outlines.                                             *)
(***************************************************************************)
UniqueTexts(o) == \A k, m \in 1..Len(o) : k # m => o[k].text # o[m].text

\* The classified headings of the rule engine, before assembly.
Classified == intro_headings \o main_content_headings

\* C7: the outline a classifier variant returns holds no text twice; of a
\* text classified more than once the entry of the earliest page remains.
C7_UniqueTexts ==
    /\ pc = "eo_returned" =>
           /\ UniqueTexts(outline_result.outline)
           /\ \A k \in 1..Len(Classified) :
                  \E m \in 1..Len(outline_result.outline) :
                      /\ outline_result.outline[m].text = Classified[k].text
                      /\ outline_result.outline[m].page + 1 <= Classified[k].page
    /\ pc = "ps_returned" => UniqueTexts(predict_result.outline)

\* An entry made by Pass 2: its text is an introductory candidate and a space.
IsIntroEntry(h) == \E c \in intro_candidates : h.text = c \o <<" ">>

\* Position of the first heading of a pass list with the given text and page.
FirstPos(hs, h) ==
    CHOOSE k \in 1..Len(hs) :
        /\ hs[k].text = h.text /\ hs[k].page = h.page + 1
        /\ \A m \in 1..k - 1 : ~(hs[m].text = h.text /\ hs[m].page = h.page + 1)

PassList(h) == IF IsIntroEntry(h) THEN intro_headings ELSE main_content_headings

\* C8: the final outline is in non-decreasing page order; on one page the
\* introductory headings precede the numbered ones, and headings of the same
\* pass keep their extraction order.
C8_OutlineOrder ==
    (pc = "eo_returned" /\ doc.readable /\ doc.pages # <<>>) =>
        \A k, m \in 1..Len(final_outline) :
            k < m =>
                /\ final_outline[k].page <= final_outline[m].page
                /\ final_outline[k].page = final_outline[m].page =>
                       /\ ~(IsIntroEntry(final_outline[m]) /\ ~IsIntroEntry(final_outline[k]))
                       /\ IsIntroEntry(final_outline[k]) = IsIntroEntry(final_outline[m]) =>
                              FirstPos(PassList(final_outline[k]), final_outline[k])
                                  < FirstPos(PassList(final_outline[m]), final_outline[m])

\* A page whose first line is a numbered heading and whose second line is an
\* introductory heading: the outline lists the introductory one first.
C8_Witness ==
    /\ pc = "eo_returned"
    /\ Len(final_outline) >= 2
    /\ IsIntroEntry(final_outline[1])
    /\ ~IsIntroEntry(final_outline[2])
    /\ final_outline[1].page = final_outline[2].page
    /\ Len(PageLines(doc.pages[1])) >= 2
    /\ IsNumberedHeading(PageLines(doc.pages[1])[1].spans)
    /\ IsIntroHeading(PageLines(doc.pages[1])[2].spans)

OutlineLevels == {<<"H", DigitChars[n + 1]>> : n \in 1..9}

\* C9: every entry of a returned outline has a level in H1..H9, whatever the
\* number of distinct sizes among the numbered headings.
C9_LevelRange ==
    pc = "eo_returned" =>
        \A k \in 1..Len(outline_result.outline) :
            outline_result.outline[k].level \in OutlineLevels

\* int(level[1:])
RECURSIVE DecimalValue(_)
DecimalValue(chars) ==
    IF chars = <<>> THEN 0
    ELSE 10 * DecimalValue(SubSeq(chars, 1, Len(chars) - 1))
         + ((CHOOSE d \in 1..10 : DigitChars[d] = chars[Len(chars)]) - 1)

LevelNumber(level) == DecimalValue(Tail(level))

\* C10: Pass 4 gives a larger size a level number that is not larger, equal
\* sizes equal levels, and the i-th largest distinct size (0-based) H{i+1}.
C10_LevelMonotone ==
    [][(pc = "eo_pass4" /\ pc' = "eo_assemble") =>
          \A k, m \in 1..Len(main_content_headings) :
              LET old == main_content_headings
                  new == main_content_headings'
                  above == {x \in {old[j].size : j \in 1..Len(old)} : x > old[k].size}
              IN  /\ old[k].size > old[m].size =>
                         LevelNumber(new[k].level) <= LevelNumber(new[m].level)
                  /\ old[k].size = old[m].size => new[k].level = new[m].level
                  /\ LevelNumber(new[k].level) = Cardinality(above) + 1
                  /\ new[k].level = <<"H">> \o Decimal(Cardinality(above) + 1)]_vars

\* Pass 4 has levelled numbered headings of two sizes: H1 and H2.
C10_Witness ==
    /\ pc = "eo_assemble"
    /\ Len(heading_sizes) >= 2
    /\ \E k, m \in 1..Len(main_content_headings) :
           /\ main_content_headings[k].level = <<"H", "1">>
           /\ main_content_headings[m].level = <<"H", "2">>

(***************************************************************************)
(* Properties of the title.                                                *)
(***************************************************************************)
\* The spans Pass 1 looks at, when the document got as far as Pass 1.
Pass1Spans == IF doc.readable /\ doc.pages # <<>> THEN TitleSpans(doc.pages[1]) ELSE <<>>

LargestSize(spans) ==
    CHOOSE m \in {spans[k].size : k \in 1..Len(spans)} :
        \A k \in 1..Len(spans) : spans[k].size <= m

FirstLargest(spans) ==
    spans[CHOOSE k \in 1..Len(spans) :
              /\ spans[k].size = LargestSize(spans)
              /\ \A j \in 1..k - 1 : spans[j].size < LargestSize(spans)]

LastLargest(spans) ==
    spans[CHOOSE k \in 1..Len(spans) :
              /\ spans[k].size = LargestSize(spans)
              /\ \A j \in k + 1..Len(spans) : spans[j].size < LargestSize(spans)]

\* C16 as claimed: the title is the stripped text of a span of the largest
\* size among the first page's blocks above the footer margin, and of several
\* spans of that size the one seen last.
C16_TitleLastSeen ==
    (pc = "eo_returned" /\ Pass1Spans # <<>>) =>
        /\ max_font_size = LargestSize(Pass1Spans)
        /\ outline_result.title = Strip(LastLargest(Pass1Spans).text)

\* C16 as amended: of several spans of the largest size the one seen first
\* in iteration order gives the title.
C16_TitleFirstSeen ==
    (pc = "eo_returned" /\ Pass1Spans # <<>>) =>
        /\ max_font_size = LargestSize(Pass1Spans)
        /\ outline_result.title = Strip(FirstLargest(Pass1Spans).text)

\* A returned document whose first page has two spans of the largest size
\* with different texts.
C16_Witness ==
    /\ pc = "eo_returned"
    /\ Pass1Spans # <<>>
    /\ Strip(FirstLargest(Pass1Spans).text) # Strip(LastLargest(Pass1Spans).text)
    /\ outline_result.title = Strip(FirstLargest(Pass1Spans).text)

(***************************************************************************)
(* The end-to-end example of the rule engine.                              *)
(***************************************************************************)
IsExample(sameBlock) == doc = Readable(<<ExamplePage(sameBlock)>>)

ExampleEntry(text) == [level |-> <<"H", "1">>, text |-> text, page |-> 0]

\* C15 as claimed: the example document yields the one entry
\* {H1, "1. Introduction ", 0}, both lines in one block or in two.
C15_ExampleAnyBlock ==
    (pc = "eo_returned" /\ \E sameBlock \in BOOLEAN : IsExample(sameBlock)) =>
        outline_result.outline = <<ExampleEntry(TIntroduction \o <<" ">>)>>

\* C15 as amended: with the lines in two blocks the entry's text is
\* "1. Introduction "; in one block the body line is merged into it and the
\* text is "1. IntroductionThis is body text. ".
C15_ExampleByBlock ==
    /\ (pc = "eo_returned" /\ IsExample(FALSE)) =>
           outline_result.outline = <<ExampleEntry(TIntroduction \o <<" ">>)>>
    /\ (pc = "eo_returned" /\ IsExample(TRUE)) =>
           outline_result.outline = <<ExampleEntry(TIntroduction \o TBodyText \o <<" ">>)>>

\* The one-block example has returned with the merged heading.
C15_Witness ==
    /\ pc = "eo_returned"
    /\ IsExample(TRUE)
    /\ Len(outline_result.outline) = 1
    /\ outline_result.outline[1].text = TIntroduction \o TBodyText \o <<" ">>
    /\ outline_result.title = TIntroduction

(***************************************************************************)
(* Fail-soft behaviour of the two classifier variants.                     *)
(***************************************************************************)
RuleEngineRuns == pc \in {"eo_open", "eo_pass1", "eo_pass2", "eo_pass3", "eo_pass4",
                           "eo_assemble", "eo_returned"}

PredictorRuns == pc \in {"ps_open", "ps_lines", "ps_returned"}

HasNoText(d) == d.readable /\ d.pages # <<>> /\ \A i \in 1..Len(d.pages) : d.pages[i].blocks = <<>>

\* Input of extract_outline that is unreadable, page-less or without text.
RuleEngineBroken == RuleEngineRuns /\ (~doc.readable \/ doc.pages = <<>> \/ HasNoText(doc))

\* Input of predict_structure that is unreadable, without text or malformed.
PredictorBroken ==
    PredictorRuns /\ (~pdf.readable \/ pdf.lines = <<>> \/ pdf.fails_at > 0)

\* No step of a run on broken input is stuck: the run goes on to its return.
NeverStuck ==
    /\ RuleEngineBroken =>
           /\ pc = "eo_open" => ENABLED OpenPdf
           /\ pc = "eo_pass1" => ENABLED ExtractTitle
           /\ pc = "eo_pass2" => ENABLED ExtractIntroHeadings
           /\ pc = "eo_pass3" => ENABLED ExtractNumberedHeadings
           /\ pc = "eo_pass4" => ENABLED ClassifyLevels
           /\ pc = "eo_assemble" => ENABLED AssembleOutline
    /\ PredictorBroken =>
           /\ pc = "ps_open" => ENABLED OpenPlumber
           /\ pc = "ps_lines" => ENABLED FailLine \/ ENABLED ClassifyLine

ScanCompleted == pc = "ps_returned" /\ pdf.readable /\ pdf.lines # <<>> /\ pdf.fails_at = 0

LowTitle(line) == line.label = LabelTitle /\ ~UpperHalf(line)

\* The label of a line after the positional guard of the claim.
GuardedLabel(line) == IF LowTitle(line) THEN <<"H", "1">> ELSE line.label

GuardedEntry(line) ==
    [level |-> GuardedLabel(line), text |-> line.text, page |-> line.page_num]

FirstPageTopTitle(line) == line.label = LabelTitle /\ line.page_num = 0 /\ UpperHalf(line)

TextsOf(lines) == [k \in 1..Len(lines) |-> lines[k].text]

\* C17: a line predicted "Title" with y_position >= 0.5 is in the returned
\* outline as an H1 entry and is not part of the title; a line predicted
\* "Title" on the first page with y_position < 0.5 is a title fragment and is
\* not in the outline.
C17_PositionalGuard ==
    ScanCompleted =>
        /\ predict_result.outline =
               LET entered == SelectSeq(pdf.lines,
                                        LAMBDA l : GuardedLabel(l) \in HeadingLabels)
               IN  [k \in 1..Len(entered) |-> GuardedEntry(entered[k])]
        /\ predict_result.title =
               Join(<<" ">>, TextsOf(SelectSeq(pdf.lines, FirstPageTopTitle)))

FirstPageH1(o) == {k \in 1..Len(o) : o[k].level = <<"H", "1">> /\ o[k].page = 0}

Without(o, k) == SubSeq(o, 1, k - 1) \o SubSeq(o, k + 1, Len(o))

\* C18: without an accepted title fragment the first H1 of the first page
\* gives the title and is the one entry removed from the outline; with title
\* fragments the title is their space-joined concatenation and the outline
\* is returned as collected.
C18_TitleFallback ==
    ScanCompleted =>
        IF potential_title_parts # <<>>
        THEN /\ predict_result.title = Join(<<" ">>, potential_title_parts)
             /\ predict_result.outline = outline
        ELSE FirstPageH1(outline) # {} =>
                 LET first == CHOOSE k \in FirstPageH1(outline) :
                                  \A m \in FirstPageH1(outline) : k <= m
                 IN  /\ predict_result.title = outline[first].text
                     /\ predict_result.outline = Without(outline, first)

(***************************************************************************)
(* extract_document_structure: the segmentation of one PDF.                *)
(***************************************************************************)
MAX_PAGES_TO_SCAN == 50

\* _calculate_median_font_size reads the first five pages.
MedianPages == 5

SegSpan(text, size, bold) == [text |-> text, size |-> size, bold |-> bold]

TextBlock(spans) == [image |-> FALSE, spans |-> spans]

\* A block without a "lines" key.
ImageBlock == [image |-> TRUE, spans |-> <<>>]

SegPage(fails, blocks) == [fails |-> fails, blocks |-> blocks]

\* " ".join([span["text"] for line in block["lines"] for span in line["spans"]]).strip()
BlockText(block) ==
    Strip(Join(<<" ">>, [k \in 1..Len(block.spans) |-> block.spans[k].text]))

\* The sizes of all spans of the pages the median is taken over; a page
\* whose get_text raises adds none.
FontSizes(pages) ==
    Concat([i \in 1..Min(Len(pages), MedianPages) |->
               IF pages[i].fails THEN <<>>
               ELSE Concat([b \in 1..Len(pages[i].blocks) |->
                               [k \in 1..Len(pages[i].blocks[b].spans) |->
                                   pages[i].blocks[b].spans[k].size]])])

\* The k-th smallest element of a sequence of numbers.
KthSmallest(sizes, k) ==
    CHOOSE v \in Range(sizes) :
        /\ Cardinality({j \in 1..Len(sizes) : sizes[j] < v}) < k
        /\ Cardinality({j \in 1..Len(sizes) : sizes[j] <= v}) >= k

\* Twice statistics.median(font_sizes), or twice 12.0 without any size.
Median2(sizes) ==
    LET n == Len(sizes)
    IN  IF n = 0 THEN 24
        ELSE IF n % 2 = 1 THEN 2 * KthSmallest(sizes, (n + 1) \div 2)
        ELSE KthSmallest(sizes, n \div 2) + KthSmallest(sizes, n \div 2 + 1)

\* _is_heading: the first span is bold or larger than 1.15 times the median.
is_heading(block, median2) ==
    /\ block.spans # <<>>
    /\ \/ block.spans[1].bold
       \/ 200 * block.spans[1].size > 115 * median2

Section(heading, content, page) ==
    [heading |-> heading, content |-> Join(<<" ">>, content), page |-> page]

\* Mutant of ShouldFlush: a section is emitted whenever a heading is current.
ShouldFlush_NoContentTest(heading, content) == heading # <<>>

\* "if current_heading and current_content"
ShouldFlush(heading, content) == heading # <<>> /\ content # <<>>

Flushed(loc, page) ==
    IF ShouldFlush(loc.current_heading, loc.current_content)
    THEN Append(loc.sections, Section(loc.current_heading, loc.current_content, page))
    ELSE loc.sections

\* Lines 85-103: what one block does to the locals of the scan.
AddBlock(loc, block, page_num, median2) ==
    IF block.image \/ BlockText(block) = <<>> THEN loc
    ELSE IF is_heading(block, median2)
    THEN [current_heading |-> BlockText(block),
          current_content |-> <<>>,
          sections |-> Flushed(loc, page_num)]
    ELSE [loc EXCEPT !.current_content = Append(@, BlockText(block))]

RECURSIVE ScanBlocks(_, _, _, _)
ScanBlocks(loc, blocks, page_num, median2) ==
    IF blocks = <<>> THEN loc
    ELSE ScanBlocks(AddBlock(loc, blocks[1], page_num, median2), Tail(blocks),
                    page_num, median2)

\* Lines 81-105: one page; a page whose get_text raises is skipped.
ScanPageOf(loc, page, page_num, median2) ==
    IF page.fails THEN loc ELSE ScanBlocks(loc, page.blocks, page_num, median2)

\* Lines 76-79: the locals before the first page.
StartLocals ==
    [current_heading |-> <<"Introduction">>, current_content |-> <<>>, sections |-> <<>>]

PagesToScan(d) == Min(Len(d.pages), MAX_PAGES_TO_SCAN)

\* Lines 72-73: the structure of a PDF that cannot be opened.
EmptyStructure(d) == [title |-> d.name, sections |-> <<>>]

\* Mutant of FinalStructure: the section still open at the end is not flushed.
FinalStructure_NoFlush(d, loc) == [title |-> d.name, sections |-> loc.sections]

\* Lines 107-113: the last flush, under the number of the last page.
FinalStructure(d, loc) == [title |-> d.name, sections |-> Flushed(loc, Len(d.pages) - 1)]

\* extract_document_structure as a function of the PDF: the turns of the page
\* loop for page_num = lo .. hi, one after the other.
RECURSIVE ScanFrom(_, _, _, _, _)
ScanFrom(loc, d, lo, hi, median2) ==
    IF lo > hi THEN loc
    ELSE IF lo = hi THEN ScanPageOf(loc, d.pages[lo + 1], lo, median2)
    ELSE LET mid == (lo + hi) \div 2
             left == ScanFrom(loc, d, lo, mid, median2)
         IN  \* current_heading is never empty; the test has the locals after
             \* page mid evaluated before the later pages are entered.
             IF left.current_heading = <<>> THEN left
             ELSE ScanFrom(left, d, mid + 1, hi, median2)

extract_document_structure(d) ==
    IF ~d.openable THEN EmptyStructure(d)
    ELSE FinalStructure(d, ScanFrom(StartLocals, d, 0, PagesToScan(d) - 1,
                                    Median2(FontSizes(d.pages))))

(***************************************************************************)
(* The PDFs.                                                               *)
(***************************************************************************)
BlockCatalogue ==
    { TextBlock(<<SegSpan(<<"H">>, 10, TRUE)>>),               \* bold
      TextBlock(<<SegSpan(<<"G">>, 16, FALSE)>>),              \* large beside size 10
      TextBlock(<<SegSpan(<<"b">>, 10, FALSE)>>),              \* body
      TextBlock(<<SegSpan(<<"c">>, 10, FALSE), SegSpan(<<" ">>, 10, TRUE)>>),
      TextBlock(<<SegSpan(<<" ">>, 16, TRUE)>>),               \* blank
      ImageBlock }

\* What separates a block from the one before it: nothing, a page break, or
\* a page break and a page whose get_text raises.
SegGaps == {"block", "page", "failed"}

FailedPage == SegPage(TRUE, <<TextBlock(<<SegSpan(<<"b">>, 10, FALSE)>>)>>)

AddSegBlock(pages, block, gap) ==
    IF pages = <<>> \/ gap = "page" THEN Append(pages, SegPage(FALSE, <<block>>))
    ELSE IF gap = "failed" THEN pages \o <<FailedPage, SegPage(FALSE, <<block>>)>>
    ELSE [pages EXCEPT ![Len(pages)].blocks = Append(@, block)]

RECURSIVE BuildSegPages(_, _)
BuildSegPages(blocks, gaps) ==
    IF blocks = <<>> THEN <<>>
    ELSE IF Len(blocks) = 1 THEN AddSegBlock(<<>>, blocks[1], "page")
    ELSE AddSegBlock(BuildSegPages(SubSeq(blocks, 1, Len(blocks) - 1), gaps),
                     blocks[Len(blocks)], gaps[Len(blocks) - 1])

Pdf(name, openable, pages) == [name |-> name, openable |-> openable, pages |-> pages]

\* os.path.basename of the i-th path.
PathNames == <<<<"a.pdf">>, <<"b.pdf">>, <<"c.pdf">>, <<"d.pdf">>, <<"e.pdf">>>>

\* The PDFs a batch of several paths is made of.
BatchCatalogue ==
    { [openable |-> FALSE, pages |-> <<>>],
      [openable |-> TRUE,
       pages |-> <<SegPage(FALSE, <<TextBlock(<<SegSpan(<<"H">>, 10, TRUE)>>),
                                   TextBlock(<<SegSpan(<<"b">>, 10, FALSE)>>)>>)>>],
      [openable |-> TRUE,
       pages |-> <<SegPage(FALSE, <<TextBlock(<<SegSpan(<<"b">>, 10, FALSE)>>)>>),
                   SegPage(FALSE, <<TextBlock(<<SegSpan(<<"G">>, 16, FALSE)>>),
                                   TextBlock(<<SegSpan(<<"b">>, 10, FALSE)>>)>>)>>] }

(***************************************************************************)
(* process_pdfs as a state machine: one task per path, run by the threads  *)
(* of the executor; executor.map yields the results in input order.        *)
(***************************************************************************)
Task(state, loc, page_num, median2, result) ==
    [state |-> state, loc |-> loc, page_num |-> page_num,
     median_font_size2 |-> median2, result |-> result]

QueuedTask == Task("queued", StartLocals, 0, 0, NoResult)

FanStart(ps) ==
    /\ pc = "pp_map"
    /\ paths = ps
    /\ tasks = [i \in 1..Len(ps) |-> QueuedTask]
    /\ completed = <<>>
    /\ pp_structures = NoResult
    /\ RankIdle
    /\ OutlineIdle
    /\ PredictIdle

\* One path, any small PDF.
SinglePdf ==
    \/ FanStart(<<Pdf(PathNames[1], FALSE, <<>>)>>)
    \/ FanStart(<<Pdf(PathNames[1], TRUE, <<>>)>>)
    \/ \E n \in 1..MaxSegBlocks :
           \E blocks \in [1..n -> BlockCatalogue] :
               \E gaps \in [1..n - 1 -> SegGaps] :
                   FanStart(<<Pdf(PathNames[1], TRUE, BuildSegPages(blocks, gaps))>>)

\* Several paths, no path at all included.
Batch ==
    \E n \in (0..MaxPaths) \ {1} :
        \E ds \in [1..n -> BatchCatalogue] :
            FanStart([i \in 1..n |-> Pdf(PathNames[i], ds[i].openable, ds[i].pages)])

\* A page without blocks.
EmptyPage == SegPage(FALSE, <<>>)

\* A PDF of n pages, n >= 2: a heading with body text on the first page, body
\* text on page `at`, and, when `closing`, a heading on the last page.
LongPages(n, at, closing) ==
    [i \in 1..n |->
        IF i = 1
        THEN SegPage(FALSE, <<TextBlock(<<SegSpan(<<"H">>, 10, TRUE)>>),
                              TextBlock(<<SegSpan(<<"b">>, 10, FALSE)>>)>>)
        ELSE IF i = n /\ closing
        THEN SegPage(FALSE, <<TextBlock(<<SegSpan(<<"G">>, 16, FALSE)>>),
                              TextBlock(<<SegSpan(<<"c">>, 10, FALSE)>>)>>)
        ELSE IF i = at
        THEN SegPage(FALSE, <<TextBlock(<<SegSpan(<<"c">>, 10, FALSE)>>)>>)
        ELSE EmptyPage]

\* One path, a PDF of about MAX_PAGES_TO_SCAN pages.
LongPdf ==
    \E n \in MAX_PAGES_TO_SCAN - 1..MAX_PAGES_TO_SCAN + ExtraPages :
        \E at \in {2, MAX_PAGES_TO_SCAN, n} :
            \E closing \in BOOLEAN :
                FanStart(<<Pdf(PathNames[1], TRUE, LongPages(n, at, closing))>>)

FanInit == SinglePdf \/ Batch \/ LongPdf

Running == {i \in 1..Len(tasks) : tasks[i].state \in {"open", "scan"}}

\* A free thread takes the next call from the work queue.
StartTask(i) ==
    /\ pc = "pp_map"
    /\ tasks[i].state = "queued"
    /\ \A j \in 1..i - 1 : tasks[j].state # "queued"
    /\ Cardinality(Running) < Workers
    /\ tasks' = [tasks EXCEPT ![i].state = "open"]
    /\ UNCHANGED <<pc, paths, completed, pp_structures>>
    /\ UNCHANGED <<rankVars, outlineVars, predictVars>>

\* Lines 69-79: open the PDF; take the median and set the locals.
OpenDocument(i) ==
    /\ pc = "pp_map"
    /\ tasks[i].state = "open"
    /\ IF ~paths[i].openable
       THEN /\ tasks' = [tasks EXCEPT ![i] =
                            Task("done", @.loc, 0, 0, EmptyStructure(paths[i]))]
            /\ completed' = Append(completed, i)
       ELSE /\ tasks' = [tasks EXCEPT ![i] =
                            Task("scan", StartLocals, 0,
                                 Median2(FontSizes(paths[i].pages)), NoResult)]
            /\ UNCHANGED completed
    /\ UNCHANGED <<pc, paths, pp_structures>>
    /\ UNCHANGED <<rankVars, outlineVars, predictVars>>

\* Lines 81-105: one turn of the page loop.
ScanPage(i) ==
    /\ pc = "pp_map"
    /\ tasks[i].state = "scan"
    /\ tasks[i].page_num < PagesToScan(paths[i])
    /\ tasks' = [tasks EXCEPT
                    ![i].loc = ScanPageOf(@, paths[i].pages[tasks[i].page_num + 1],
                                          tasks[i].page_num, tasks[i].median_font_size2),
                    ![i].page_num = @ + 1]
    /\ UNCHANGED <<pc, paths, completed, pp_structures>>
    /\ UNCHANGED <<rankVars, outlineVars, predictVars>>

\* Lines 107-113: the last flush and the return.
ReturnDocument(i) ==
    /\ pc = "pp_map"
    /\ tasks[i].state = "scan"
    /\ tasks[i].page_num = PagesToScan(paths[i])
    /\ tasks' = [tasks EXCEPT ![i].state = "done",
                               ![i].result = FinalStructure(paths[i], tasks[i].loc)]
    /\ completed' = Append(completed, i)
    /\ UNCHANGED <<pc, paths, pp_structures>>
    /\ UNCHANGED <<rankVars, outlineVars, predictVars>>

\* Mutant of MapResults: the results in the order the calls returned.
MapResults_AsCompleted(ts, done) == [k \in 1..Len(done) |-> ts[done[k]].result]

\* list(executor.map(...)): the results in the order of the paths.
MapResults(ts, done) == [i \in 1..Len(ts) |-> ts[i].result]

\* Lines 224-228: every call has returned; the list goes to run_hybrid_analysis.
CollectStructures ==
    /\ pc = "pp_map"
    /\ \A i \in 1..Len(tasks) : tasks[i].state = "done"
    /\ pp_structures' = MapResults(tasks, completed)
    /\ pc' = "pp_analysis"
    /\ UNCHANGED <<paths, tasks, completed>>
    /\ UNCHANGED <<rankVars, outlineVars, predictVars>>

FanNext ==
    \/ \E i \in 1..Len(tasks) : StartTask(i)
    \/ \E i \in 1..Len(tasks) : OpenDocument(i)
    \/ \E i \in 1..Len(tasks) : ScanPage(i)
    \/ \E i \in 1..Len(tasks) : ReturnDocument(i)
    \/ CollectStructures

SpecFanOut == FanInit /\ [][FanNext]_vars

(***************************************************************************)
(* Properties of the fan-out and of the segmentation.                      *)
(***************************************************************************)
\* C12: whatever the interleaving of the tasks, the list handed to the
\* ranking stage has one structure per path, in the order of the paths; a PDF
\* that cannot be opened gives an empty section list, and every PDF gives the
\* sections it gives when it is processed alone.
C12_FanOutOrder ==
    pc = "pp_analysis" =>
        /\ Len(pp_structures) = Len(paths)
        /\ \A i \in 1..Len(paths) :
               /\ pp_structures[i].title = paths[i].name
               /\ ~paths[i].openable => pp_structures[i].sections = <<>>
               /\ pp_structures[i] = extract_document_structure(paths[i])

\* Three paths, one PDF that could not be opened, a later call that returned
\* before an earlier one, and a sibling with sections.
C12_Witness ==
    /\ pc = "pp_analysis"
    /\ Len(paths) = 3
    /\ \E k \in 1..2 : completed[k] > completed[k + 1]
    /\ \E i, j \in 1..3 :
           /\ ~paths[i].openable
           /\ pp_structures[j].sections # <<>>

\* The blocks the scan of a PDF acts on: text blocks with text, of the scanned
\* pages that could be read.
ScannedBlocks(d) ==
    Concat([i \in 1..PagesToScan(d) |->
               IF d.pages[i].fails THEN <<>>
               ELSE SelectSeq(d.pages[i].blocks,
                              LAMBDA b : ~b.image /\ BlockText(b) # <<>>)])

\* The initial "Introduction" heading and the scanned blocks, each marked as
\* heading or body.
Marks(d) ==
    LET blocks == ScannedBlocks(d)
        median2 == Median2(FontSizes(d.pages))
    IN  <<[heading |-> TRUE, text |-> <<"Introduction">>]>>
        \o [k \in 1..Len(blocks) |->
               [heading |-> is_heading(blocks[k], median2), text |-> BlockText(blocks[k])]]

\* A heading directly followed by another heading or by the end of the PDF.
BareHeading(marks, k) ==
    marks[k].heading /\ (k = Len(marks) \/ marks[k + 1].heading)

HeadingsWithBody(marks) ==
    SelectSeq([k \in 1..Len(marks) |-> k],
              LAMBDA k : marks[k].heading /\ ~BareHeading(marks, k))

\* C14: every emitted section has content; the emitted sections are, in
\* order, those of the headings that a body block follows directly, so a
\* heading followed directly by a heading or by the end of the document
\* emits none.
C14_FlushInvariant ==
    \A i \in 1..Len(tasks) :
        /\ \A k \in 1..Len(tasks[i].loc.sections) :
               tasks[i].loc.sections[k].content # <<>>
        /\ (tasks[i].state = "done" /\ paths[i].openable) =>
               LET sections == tasks[i].result.sections
                   marks == Marks(paths[i])
                   withBody == HeadingsWithBody(marks)
               IN  /\ \A k \in 1..Len(sections) : sections[k].content # <<>>
                   /\ [k \in 1..Len(sections) |-> sections[k].heading]
                          = [k \in 1..Len(withBody) |-> marks[withBody[k]].text]

\* A PDF in which a heading follows a heading directly, and a section was
\* emitted all the same for a heading with body text.
C14_Witness ==
    /\ pc = "pp_analysis"
    /\ Len(paths) = 1
    /\ paths[1].openable
    /\ \E k \in 2..Len(Marks(paths[1])) - 1 :
           Marks(paths[1])[k].heading /\ Marks(paths[1])[k + 1].heading
    /\ pp_structures[1].sections # <<>>

(***************************************************************************)
(* Properties of the emitted sections.                                     *)
(***************************************************************************)
\* The 0-based page of each block of ScannedBlocks(d).
ScannedBlockPages(d) ==
    Concat([i \in 1..PagesToScan(d) |->
               IF d.pages[i].fails THEN <<>>
               ELSE LET kept == SelectSeq(d.pages[i].blocks,
                                          LAMBDA b : ~b.image /\ BlockText(b) # <<>>)
                    IN  [k \in 1..Len(kept) |-> i - 1]])

\* The page of each mark of Marks(d); the initial "Introduction" is on page 0.
MarkPages(d) == <<0>> \o ScannedBlockPages(d)

\* A task that opened its PDF and returned.
Segmented(i) == tasks[i].state = "done" /\ paths[i].openable

\* C21: the page recorded for an emitted section is the 0-based page on which
\* the section's own heading block was seen (page 0 for "Introduction").
C21_PageOfOwnHeading ==
    \A i \in 1..Len(tasks) :
        Segmented(i) =>
            LET sections == tasks[i].result.sections
                withBody == HeadingsWithBody(Marks(paths[i]))
            IN  /\ Len(sections) = Len(withBody)
                /\ \A k \in 1..Len(sections) :
                       sections[k].page = MarkPages(paths[i])[withBody[k]]

\* C22: the page recorded for every emitted section, the one flushed at the
\* end of the document included, is the index of a scanned page:
\* 0 <= page < min(page count, MAX_PAGES_TO_SCAN).
C22_PageInScannedRange ==
    \A i \in 1..Len(tasks) :
        Segmented(i) =>
            \A k \in 1..Len(tasks[i].result.sections) :
                /\ 0 <= tasks[i].result.sections[k].page
                /\ tasks[i].result.sections[k].page < PagesToScan(paths[i])

\* The first heading after mark h, or the position after the last mark.
NextHeading(marks, h) ==
    LET later == {j \in h + 1..Len(marks) : marks[j].heading}
    IN  IF later = {} THEN Len(marks) + 1 ELSE CHOOSE j \in later : \A m \in later : j <= m

\* The texts of the body blocks between heading h and the next heading.
BodyAfter(marks, h) == [j \in 1..NextHeading(marks, h) - h - 1 |-> marks[h + j].text]

\* C23: the body blocks scanned are, in scan order, the content of the section
\* of the most recent heading before them ("Introduction" before the first
\* heading): each section's content is the space-joined text of exactly the
\* body blocks between its heading and the next, every heading with such
\* blocks has its section, and no heading's text is part of a content.
C23_BodyConservation ==
    \A i \in 1..Len(tasks) :
        Segmented(i) =>
            LET sections == tasks[i].result.sections
                marks == Marks(paths[i])
                withBody == HeadingsWithBody(marks)
            IN  /\ Len(sections) = Len(withBody)
                /\ \A k \in 1..Len(sections) :
                       /\ sections[k].heading = marks[withBody[k]].text
                       /\ sections[k].content =
                              Join(<<" ">>, BodyAfter(marks, withBody[k]))

\* A PDF that gave two sections, the first with two body blocks of different
\* pages.
C23_Witness ==
    /\ pc = "pp_analysis"
    /\ Len(paths) = 1
    /\ paths[1].openable
    /\ Len(pp_structures[1].sections) = 2
    /\ Len(BodyAfter(Marks(paths[1]), HeadingsWithBody(Marks(paths[1]))[1])) = 2
    /\ pp_structures[1].sections[1].content = <<"b", " ", "c">>

====
